---- MODULE Spec2Model ----
(***************************************************************************)
(* A model of the asyncify package: asyncify_func / syncify_func           *)
(* (func.py), asyncify_class / ignore (cls.py), HybridFunction (hybrid.py) *)
(* and AsyncifyEventLoopPolicy (events.py).  The four components share no  *)
(* state; each has its own specification (SpecFunc, SpecClass, SpecHybrid, *)
(* SpecEvents) in which the variables of the other components stay idle.   *)
(***************************************************************************)
EXTENDS Integers, Sequences, FiniteSets, TLC

VARIABLES
    wrapped,     \* func.py: the last asyncify_func / syncify_func call and its outcome
    called,      \* func.py: the last call of the object that call returned
    cls,         \* cls.py: the class namespace (member name -> object)
    clsRes,      \* cls.py: the outcome of asyncify_class on cls
    descr,       \* hybrid.py: the HybridFunction stored as a class member
    bound,       \* hybrid.py: the last object an attribute access (__get__) produced
    hcall,       \* hybrid.py: the last __call__ and its outcome
    platform,    \* events.py: sys.platform
    bases,       \* events.py: AsyncifyEventLoopPolicy.__bases__[0]
    hooks,       \* events.py: the policy instance's own attributes (method name -> updated)
    latest,      \* events.py: history, per name the func most recently registered,
                 \* __bases__ at that time, and whether it replaced an earlier one
    ev           \* events.py: the last operation on the policy and its outcome

funcVars == <<wrapped, called>>
clsVars == <<cls, clsRes>>
hybridVars == <<descr, bound, hcall>>
eventVars == <<platform, bases, hooks, latest, ev>>
vars == <<wrapped, called, cls, clsRes, descr, bound, hcall, platform, bases, hooks, latest, ev>>

\* The outcome of a Python call: a returned value or a raised exception.
Return(v) == [tag |-> "return", val |-> v]
Raise(e) == [tag |-> "raise", val |-> e]

\* Python's None.
None == [kind |-> "NoneType"]

(***************************************************************************)
(* func.py                                                                 *)
(***************************************************************************)

\* Largest integer passed as the argument of a wrapped function.
MaxArg == 2

Args == 0..MaxArg

\* The objects handed to asyncify_func / syncify_func: a def function, an
\* async def function, a callable that is no function (a builtin, an object
\* with __call__), and a value that is not callable.  body is what running
\* the callable does with its argument.
FuncObjs ==
    [kind : {"function", "coroutinefunction", "callable"}, body : {"inc", "double", "raise"}]
        \cup {[kind |-> "noncallable", body |-> "none"]}

iscoroutinefunction(f) == f.kind \in {"coroutinefunction", "async_func"}
isfunction(f) == f.kind \in {"function", "coroutinefunction", "async_func", "sync_func"}
callable(f) == f.kind # "noncallable"

\* Running the body of a callable on one argument.
RunBody(f, a) ==
    CASE f.body = "inc" -> Return(a + 1)
      [] f.body = "double" -> Return(2 * a)
      [] f.body = "raise" -> Raise("ValueError")
      [] OTHER -> Raise("TypeError")

\* The closures asyncify_func and syncify_func build around func.
async_func(func) == [kind |-> "async_func", body |-> "closure", func |-> func]
sync_func(func) == [kind |-> "sync_func", body |-> "closure", func |-> func]

asyncify_func(func) ==
    IF iscoroutinefunction(func) THEN Return(func)
    ELSE IF callable(func) THEN Raise("TypeError")
    ELSE Return(async_func(func))

syncify_func(func) ==
    IF isfunction(func) /\ ~iscoroutinefunction(func) THEN Return(func)
    ELSE IF ~callable(func) THEN Raise("TypeError")
    ELSE Return(sync_func(func))

\* await g(a) inside a running event loop.  For the async_func closure:
\* functools.partial(func, a) rejects a func that is not callable, then
\* run_in_executor runs func on a worker thread and the await resolves to
\* its outcome.  An async def function runs its own body.
AwaitCall(g, a) ==
    IF g.kind = "async_func"
    THEN IF ~callable(g.func) THEN Raise("TypeError") ELSE RunBody(g.func, a)
    ELSE RunBody(g, a)

\* The state of the calling thread's event loop.
LoopStates == {"none", "idle", "running"}

\* asyncio.get_running_loop(): the loop running on this thread, else RuntimeError.
get_running_loop(loop) == IF loop = "running" THEN Return(loop) ELSE Raise("RuntimeError")

\* loop.run_until_complete(x) on a loop that is already running: _check_running raises.
run_until_complete(loop, x) == IF loop = "running" THEN Raise("RuntimeError") ELSE x

\* g(a) called from synchronous code.  For the sync_func closure:
\* get_running_loop() comes first, then func(a) is evaluated (an async def
\* only builds its coroutine, any other callable runs and may raise), then
\* run_until_complete is asked to drive the loop.
SyncCall(g, a, loop) ==
    IF g.kind = "sync_func"
    THEN LET l == get_running_loop(loop)
             arg == IF iscoroutinefunction(g.func) THEN Return("coroutine") ELSE RunBody(g.func, a)
         IN IF l.tag = "raise" THEN l
            ELSE IF arg.tag = "raise" THEN arg
            ELSE run_until_complete(loop, RunBody(g.func, a))
    ELSE RunBody(g, a)

NoWrap == [op |-> "none", func |-> None, res |-> Return(None)]
NoCall == [args |-> None, loop |-> "unset", res |-> Return(None)]

FuncInit == wrapped = NoWrap /\ called = NoCall

AsyncifyFunc ==
    \E f \in FuncObjs :
        /\ wrapped' = [op |-> "asyncify", func |-> f, res |-> asyncify_func(f)]
        /\ called' = NoCall
        /\ UNCHANGED <<clsVars, hybridVars, eventVars>>

SyncifyFunc ==
    \E f \in FuncObjs :
        /\ wrapped' = [op |-> "syncify", func |-> f, res |-> syncify_func(f)]
        /\ called' = NoCall
        /\ UNCHANGED <<clsVars, hybridVars, eventVars>>

\* await wrapper(a) under a running loop, wrapper being what asyncify_func returned.
AwaitWrapped ==
    /\ wrapped.op = "asyncify"
    /\ wrapped.res.tag = "return"
    /\ \E a \in Args :
        called' = [args |-> a, loop |-> "running", res |-> AwaitCall(wrapped.res.val, a)]
    /\ UNCHANGED <<wrapped, clsVars, hybridVars, eventVars>>

\* wrapper(a) from synchronous code, wrapper being what syncify_func returned.
CallWrapped ==
    /\ wrapped.op = "syncify"
    /\ wrapped.res.tag = "return"
    /\ \E a \in Args, loop \in LoopStates :
        called' = [args |-> a, loop |-> loop, res |-> SyncCall(wrapped.res.val, a, loop)]
    /\ UNCHANGED <<wrapped, clsVars, hybridVars, eventVars>>

FuncNext ==
    \/ AsyncifyFunc
    \/ SyncifyFunc
    \/ AwaitWrapped
    \/ CallWrapped

(***************************************************************************)
(* cls.py                                                                  *)
(***************************************************************************)

\* The number of members of the class handed to asyncify_class.
NumMembers == 3

\* The member names, in the order inspect.getmembers lists them (sorted):
\* __eq__, _a, a, b.
MemberNames ==
    << <<"_", "_", "e", "q", "_", "_">>, <<"_", "a">>, <<"a">>, <<"b">> >>

\* str.startswith
startswith(s, prefix) ==
    /\ Len(s) >= Len(prefix)
    /\ SubSeq(s, 1, Len(prefix)) = prefix

\* The functions a class body defines: def or async def, marked by ignore or not.
ClsFuncs(flags) == [kind : {"function", "coroutinefunction"}, body : {"inc"}, ignore : flags]

\* What a class namespace holds under a name: a function, a classmethod or
\* staticmethod object around one, or an attribute that is no function.
ClsObjs(flags) ==
    ClsFuncs(flags)
        \cup [kind : {"classmethod", "staticmethod"}, func : ClsFuncs(flags)]
        \cup {[kind |-> "attr"]}

\* getattr(cls, name), as inspect.getmembers reads each member: a classmethod
\* comes back as a bound method, a staticmethod as the function it holds.
getattr_cls(obj) ==
    CASE obj.kind = "classmethod" -> [kind |-> "method", func |-> obj.func]
      [] obj.kind = "staticmethod" -> obj.func
      [] OTHER -> obj

\* isinstance(func, function_types)
function_types == {"function", "coroutinefunction", "async_func", "classmethod", "staticmethod"}

\* getattr(func, '_asyncify_ignore', False): a bound method answers for its function.
asyncify_ignore(func) ==
    CASE func.kind \in {"function", "coroutinefunction"} -> func.ignore
      [] func.kind = "method" -> func.func.ignore
      [] OTHER -> FALSE

\* The loop of asyncify_class over the members read before the loop began,
\* from member i on: the namespace it leaves and how it ends.
RECURSIVE asyncify_loop(_, _, _)
asyncify_loop(ns, members, i) ==
    IF i > Len(members) THEN [ns |-> ns, res |-> Return("cls")]
    ELSE LET name == members[i].name
             func == members[i].obj
         IN IF \/ func.kind \notin function_types
               \/ asyncify_ignore(func)
               \/ startswith(name, <<"_", "_">>)
            THEN asyncify_loop(ns, members, i + 1)
            ELSE LET r == asyncify_func(func)
                 IN IF r.tag = "raise" THEN [ns |-> ns, res |-> r]
                    ELSE asyncify_loop([ns EXCEPT ![i].obj = r.val], members, i + 1)

\* inspect.getmembers(cls)
getmembers(ns) == [i \in DOMAIN ns |-> [name |-> ns[i].name, obj |-> getattr_cls(ns[i].obj)]]

asyncify_class(ns) == asyncify_loop(ns, getmembers(ns), 1)

\* ignore(func): sets func._asyncify_ignore on the function under member i.
ignore(ns, i) ==
    LET obj == ns[i].obj
    IN CASE obj.kind \in {"function", "coroutinefunction"} ->
                [ns EXCEPT ![i].obj.ignore = TRUE]
         [] obj.kind \in {"classmethod", "staticmethod"} ->
                [ns EXCEPT ![i].obj.func.ignore = TRUE]
         [] OTHER -> ns

NotRun == [done |-> FALSE, before |-> None, res |-> Return(None)]

\* A class as its body leaves it: no member marked yet.
ClsInit ==
    /\ cls \in [1..NumMembers -> ClsObjs({FALSE})]
    /\ clsRes = NotRun

ClsIdle == cls = <<>> /\ clsRes = NotRun

Namespace(c) == [i \in DOMAIN c |-> [name |-> MemberNames[i], obj |-> c[i]]]

Ignore ==
    /\ ~clsRes.done
    /\ \E i \in DOMAIN cls :
        /\ cls[i].kind # "attr"
        /\ cls' = [j \in DOMAIN cls |-> ignore(Namespace(cls), i)[j].obj]
    /\ UNCHANGED <<clsRes, funcVars, hybridVars, eventVars>>

AsyncifyClass ==
    LET out == asyncify_class(Namespace(cls))
    IN /\ cls' = [j \in DOMAIN cls |-> out.ns[j].obj]
       /\ clsRes' = [done |-> TRUE, before |-> cls, res |-> out.res]
       /\ UNCHANGED <<funcVars, hybridVars, eventVars>>

ClsNext ==
    \/ Ignore
    \/ AsyncifyClass

(***************************************************************************)
(* hybrid.py                                                               *)
(***************************************************************************)
\* Strings are sequences of characters, so that the regular expression and
\* the substring tests are computed on the text of the source lines.

\* The deepest call stack above __call__.
MaxDepth == 2

\* "await"
AwaitWord ==
    <<"a", "w", "a", "i", "t">>

WordChars ==
    {"a", "b", "c", "d", "e", "f", "g", "h", "i", "j", "k", "l", "m", "n", "o", "p", "q", "r",
      "s", "t", "u", "v", "w", "x", "y", "z", "A", "B", "C", "D", "E", "F", "G", "H", "I", "J",
      "K", "L", "M", "N", "O", "P", "Q", "R", "S", "T", "U", "V", "W", "X", "Y", "Z", "0", "1",
      "2", "3", "4", "5", "6", "7", "8", "9", "_"}

\* What \s matches, and what str.strip() removes.
Whitespace == {" ", "\t", "\n"}

\* The registered names: foo, strip.
NameFoo ==
    <<"f", "o", "o">>

NameStrip ==
    <<"s", "t", "r", "i", "p">>

HybridNames == {NameFoo, NameStrip}

\* `sub in s` on strings
Contains(s, sub) ==
    \E i \in 1..(Len(s) - Len(sub) + 1) : SubSeq(s, i, i + Len(sub) - 1) = sub

\* str.strip()
strip(s) ==
    LET keep == {i \in 1..Len(s) : s[i] \notin Whitespace}
    IN IF keep = {} THEN <<>>
       ELSE SubSeq(s, CHOOSE i \in keep : \A j \in keep : i <= j,
                      CHOOSE i \in keep : \A j \in keep : i >= j)

\* The first position from i on whose character is outside set (Len(s) + 1 if none).
SkipWhile(s, i, set) ==
    LET rest == {p \in i..Len(s) : s[p] \notin set}
    IN IF rest = {} THEN Len(s) + 1 ELSE CHOOSE p \in rest : \A q \in rest : p <= q

\* The last position of a match of  await\s+(\w|\.)*\(.*\)  that starts at
\* position i, or 0 when none starts there.  \s+ and (\w|\.)* are greedy and
\* what follows each is outside its class, so the opening parenthesis is
\* fixed; .* is greedy and stays on the line, so the match ends at the last
\* closing parenthesis before a newline.
MatchAt(s, i) ==
    IF i + 5 > Len(s) \/ SubSeq(s, i, i + 4) # AwaitWord \/ s[i + 5] \notin Whitespace THEN 0
    ELSE LET k == SkipWhile(s, i + 5, Whitespace)
             m == SkipWhile(s, k, WordChars \cup {"."})
             newlines == {p \in m..Len(s) : s[p] = "\n"}
             eol == IF newlines = {} THEN Len(s) + 1
                    ELSE CHOOSE p \in newlines : \A q \in newlines : p <= q
             closing == {p \in (m + 1)..(eol - 1) : s[p] = ")"}
         IN IF m > Len(s) \/ closing = {} THEN 0
            ELSE IF s[m] # "(" THEN 0
            ELSE CHOOSE p \in closing : \A q \in closing : p >= q

\* regex.search(code_context).span(): the leftmost match, first and last
\* position, or <<0, 0>> when the line has no match.
regex_search(s) ==
    LET starts == {i \in 1..Len(s) : MatchAt(s, i) > 0}
    IN IF starts = {} THEN <<0, 0>>
       ELSE LET i == CHOOSE x \in starts : \A y \in starts : x <= y
            IN <<i, MatchAt(s, i)>>

_check_regex(name, code_context) ==
    LET span == regex_search(code_context)
    IN IF span = <<0, 0>> THEN FALSE
       ELSE IF ~Contains(SubSeq(code_context, span[1], span[2]), name) THEN FALSE
       ELSE TRUE

\* A frame whose source is not available has code_context None; no
\* available line is empty, so the empty sequence stands for it.
NoContext == <<>>

\* The walk as it would be if a frame without source ended it.
RECURSIVE get_frame_stop_at_no_context(_, _, _)
get_frame_stop_at_no_context(name, frames, i) ==
    IF i > Len(frames) THEN Raise("RuntimeError")
    ELSE IF frames[i] = NoContext THEN Raise("RuntimeError")
    ELSE IF Contains(frames[i], name) THEN Return(frames[i])
    ELSE get_frame_stop_at_no_context(name, frames, i + 1)

\* _get_frame over inspect.getouterframes(current_frame), from frame i on:
\* frames[1] is the __call__ frame itself, frames[2] its caller.
RECURSIVE get_frame_from(_, _, _)
get_frame_from(name, frames, i) ==
    IF i > Len(frames) THEN Raise("RuntimeError")
    ELSE IF frames[i] = NoContext THEN get_frame_from(name, frames, i + 1)
    ELSE IF Contains(frames[i], name) THEN Return(frames[i])
    ELSE get_frame_from(name, frames, i + 1)

\* _get_frame as it would be if only the caller's frame were read.
get_frame_caller_only(name, frames) ==
    IF frames[2] # NoContext /\ Contains(frames[2], name) THEN Return(frames[2])
    ELSE Raise("RuntimeError")

_get_frame(name, frames) == get_frame_from(name, frames, 1)

\* The objects a HybridFunction member is read from: truthy and falsy
\* instances, and None when it is read from the class.
Instances == {[id |-> 1, truthy |-> TRUE], [id |-> 2, truthy |-> FALSE]}

\* bool(x)
truth(x) == IF x = None THEN FALSE ELSE x.truthy

\* HybridFunction.__init__
HybridFunction(name, nsync, nasync) ==
    IF nsync # nasync THEN Raise("TypeError")
    ELSE Return([name |-> name, nparams |-> nsync, instance |-> None])

\* HybridFunction.__get__
get(self, instance) ==
    LET new_self == HybridFunction(self.name, self.nparams, self.nparams).val
    IN [new_self EXCEPT !.instance = instance]

\* HybridFunction.__call__: the implementation invoked and the positional
\* arguments it receives, or the exception raised before either is invoked.
call(self, args, frames) ==
    LET args2 == IF truth(self.instance) THEN <<self.instance>> \o args ELSE args
        found == _get_frame(self.name, frames)
    IN IF found.tag = "raise" THEN found
       ELSE IF _check_regex(self.name, strip(found.val))
            THEN Return([impl |-> "async", args |-> args2])
            ELSE Return([impl |-> "sync", args |-> args2])

\* hybrid.py line 67, the line the __call__ frame is executing when _get_frame walks the stack
CallLine ==
    <<" ", " ", " ", " ", " ", " ", " ", " ", "c", "o", "d", "e", "_", "c", "o", "n", "t", "e",
      "x", "t", " ", "=", " ", "s", "e", "l", "f", ".", "_", "g", "e", "t", "_", "f", "r", "a",
      "m", "e", "(", "f", "r", "a", "m", "e", ")", ".", "s", "t", "r", "i", "p", "(", ")",
      "\n">>

\*     r = foo()\n
LineBare ==
    <<" ", " ", " ", " ", "r", " ", "=", " ", "f", "o", "o", "(", ")", "\n">>

\*     r = await foo()\n
LineAwait ==
    <<" ", " ", " ", " ", "r", " ", "=", " ", "a", "w", "a", "i", "t", " ", "f", "o", "o", "(",
      ")", "\n">>

\*     u = await client.foo(1)\n
LineAwaitAttr ==
    <<" ", " ", " ", " ", "u", " ", "=", " ", "a", "w", "a", "i", "t", " ", "c", "l", "i", "e",
      "n", "t", ".", "f", "o", "o", "(", "1", ")", "\n">>

\*     return fn()\n
LineAlias ==
    <<" ", " ", " ", " ", "r", "e", "t", "u", "r", "n", " ", "f", "n", "(", ")", "\n">>

\*     return await fn()\n
LineAwaitAlias ==
    <<" ", " ", " ", " ", "r", "e", "t", "u", "r", "n", " ", "a", "w", "a", "i", "t", " ", "f",
      "n", "(", ")", "\n">>

\*     v = await bar(foo)\n
LineAwaitArg ==
    <<" ", " ", " ", " ", "v", " ", "=", " ", "a", "w", "a", "i", "t", " ", "b", "a", "r", "(",
      "f", "o", "o", ")", "\n">>

\*     foo(); await bar()\n
LineOutside ==
    <<" ", " ", " ", " ", "f", "o", "o", "(", ")", ";", " ", "a", "w", "a", "i", "t", " ", "b",
      "a", "r", "(", ")", "\n">>

\*     s = await strip()\n
LineAwaitStrip ==
    <<" ", " ", " ", " ", "s", " ", "=", " ", "a", "w", "a", "i", "t", " ", "s", "t", "r", "i",
      "p", "(", ")", "\n">>

\* The source lines of the frames above __call__.
Lines ==
    {LineBare, LineAwait, LineAwaitAttr, LineAlias, LineAwaitAlias, LineAwaitArg, LineOutside,
     LineAwaitStrip}

RECURSIVE Stacks(_)
Stacks(n) ==
    IF n = 0 THEN {<<>>}
    ELSE Stacks(n - 1) \cup
         {Append(st, fr) : st \in {t \in Stacks(n - 1) : Len(t) = n - 1}, fr \in Lines \cup {NoContext}}

\* The stacks getouterframes can return: the __call__ frame, with the source
\* of hybrid.py at hand or not, then at least the caller's frame.
Frames ==
    {<<own>> \o st : own \in {CallLine, NoContext}, st \in Stacks(MaxDepth) \ {<<>>}}

NotCalled == [self |-> None, args |-> <<>>, frames |-> <<>>, res |-> Return(None)]

HybridInit == descr = Return(None) /\ bound = None /\ hcall = NotCalled

HybridIdle == HybridInit

\* hybrid_function(name, sync_callback, async_callback), stored as a class member.
Construct ==
    /\ \E name \in HybridNames, nsync \in 1..2, nasync \in 1..2 :
        descr' = HybridFunction(name, nsync, nasync)
    /\ bound' = None
    /\ hcall' = NotCalled
    /\ UNCHANGED <<funcVars, clsVars, eventVars>>

\* obj.member, or cls.member with instance None.
Get ==
    /\ descr.tag = "return"
    /\ descr.val # None
    /\ \E instance \in Instances \cup {None} : bound' = get(descr.val, instance)
    /\ hcall' = NotCalled
    /\ UNCHANGED <<descr, funcVars, clsVars, eventVars>>

\* obj.member(*args): the call through the object the attribute access
\* produced.  A call leaves no state behind, so one call per access is modelled.
Call ==
    /\ bound # None
    /\ hcall = NotCalled
    /\ \E args \in {<<>>, <<7>>}, frames \in Frames :
        hcall' = [self |-> bound, args |-> args, frames |-> frames,
                  res |-> call(bound, args, frames)]
    /\ UNCHANGED <<descr, bound, funcVars, clsVars, eventVars>>

HybridNext ==
    \/ Construct
    \/ Get
    \/ Call

(***************************************************************************)
(* events.py                                                               *)
(***************************************************************************)

_valid_names ==
    <<"get_event_loop", "set_event_loop", "new_event_loop", "get_child_watcher",
      "set_child_watcher">>

ValidNames == {_valid_names[i] : i \in DOMAIN _valid_names}

\* __name__ of a callable that has none (a functools.partial, an object with __call__).
NoName == "<no __name__>"

\* The policy methods the modelled callers register hooks for.
HookedNames == {"get_event_loop", "new_event_loop", "set_child_watcher"}

\* The functions handed to event: callables named after a policy method,
\* named otherwise or unnamed, and values that are not callable.
EventFuncs ==
    [callable : {TRUE}, name : HookedNames, id : {1, 2}]
        \cup [callable : {TRUE}, name : {"run_forever", NoName}, id : {1}]
        \cup [callable : {FALSE}, name : {"get_event_loop", NoName}, id : {0}]

\* The classes of the model and their __bases__.
ClassBases(c) ==
    CASE c = "object" -> {}
      [] c = "int" -> {"object"}
      [] c = "AbstractEventLoop" -> {"object"}
      [] c = "AbstractEventLoopPolicy" -> {"object"}
      [] c = "_ChangingEventLoopPolicy" -> {"object"}
      [] c = "BaseDefaultEventLoopPolicy" -> {"AbstractEventLoopPolicy"}
      [] c = "DefaultEventLoopPolicy" -> {"BaseDefaultEventLoopPolicy"}
      [] c = "UserPolicy" -> {"AbstractEventLoopPolicy"}
      [] c = "UserLoop" -> {"AbstractEventLoop"}
      [] c = "LoopPolicy" -> {"DefaultEventLoopPolicy", "AbstractEventLoop"}

\* The classes handed to change_base_policy.
PolicyClasses ==
    {"int", "AbstractEventLoop", "AbstractEventLoopPolicy", "DefaultEventLoopPolicy",
     "UserPolicy", "UserLoop", "LoopPolicy"}

RECURSIVE issubclass(_, _)
issubclass(c, a) == c = a \/ \E b \in ClassBases(c) : issubclass(b, a)

\* getattr(super(), name) on the policy instance: the method of the first
\* base that has it.  The policy methods are those of AbstractEventLoopPolicy
\* and of the classes derived from it.
getattr_super(bs, name) ==
    LET having == {i \in DOMAIN bs : issubclass(bs[i], "AbstractEventLoopPolicy")}
    IN IF having = {} \/ name \notin ValidNames THEN Raise("AttributeError")
       ELSE Return([cls |-> bs[CHOOSE i \in having : \A j \in having : i <= j], name |-> name])

\* _ChangingEventLoopPolicyBaseMeta.change_base_policy: the exception
\* raised, or the new __bases__.
change_base_policy(bs, policy_cls) ==
    IF "AbstractEventLoop" \notin ClassBases(policy_cls) THEN Raise("TypeError")
    ELSE Return(<<policy_cls>>)

\* event as it would be without the win32 test.
event_no_platform_check(plat, bs, func) ==
    IF ~func.callable THEN Raise("TypeError")
    ELSE IF func.name = NoName THEN Raise("AttributeError")
    ELSE IF func.name \notin ValidNames THEN Raise("RuntimeError")
    ELSE LET old == getattr_super(bs, func.name)
         IN IF old.tag = "raise" THEN old
            ELSE Return([func |-> func, old |-> old.val])

\* AsyncifyEventLoopPolicy.event: the exception raised, or the closure
\* `updated` that is set on the instance under old.__name__ and returned.
event(plat, bs, func) ==
    IF ~func.callable THEN Raise("TypeError")
    ELSE IF func.name = NoName THEN Raise("AttributeError")
    ELSE IF plat = "win32" /\ func.name \in {"get_child_watcher", "set_child_watcher"}
         THEN Raise("RuntimeError")
    ELSE IF func.name \notin ValidNames THEN Raise("RuntimeError")
    ELSE LET old == getattr_super(bs, func.name)
         IN IF old.tag = "raise" THEN old
            ELSE Return([func |-> func, old |-> old.val])

\* The assignment as it would be if an earlier hook were kept.
setattr_keep_first(table, upd) ==
    IF table[upd.old.name] # None THEN table ELSE [table EXCEPT ![upd.old.name] = upd]

\* setattr(self, old.__name__, updated)
setattr_hook(table, upd) == [table EXCEPT ![upd.old.name] = upd]

\* One invocation of a base policy method, and what it returns.
BaseCall(old, args) == [callee |-> "base", cls |-> old.cls, name |-> old.name, args |-> args]
BaseResult(old, args) == [from |-> "base", cls |-> old.cls, name |-> old.name, args |-> args]

\* One invocation of a registered func.
HookCall(func, args) == [callee |-> "hook", id |-> func.id, name |-> func.name, args |-> args]

\* The closure `updated`: func(*args), then return old(*args).
updated(upd, args) ==
    [log |-> <<HookCall(upd.func, args), BaseCall(upd.old, args)>>,
     res |-> Return(BaseResult(upd.old, args))]

\* policy.<name>(*args): the instance's own attribute if event set one, else
\* the method the class inherits.
policy_call(table, bs, name, args) ==
    IF table[name] # None THEN updated(table[name], args)
    ELSE LET m == getattr_super(bs, name)
         IN IF m.tag = "raise" THEN [log |-> <<>>, res |-> m]
            ELSE [log |-> <<BaseCall(m.val, args)>>, res |-> Return(BaseResult(m.val, args))]

NoOp == [op |-> "none", arg |-> None, args |-> <<>>, res |-> Return(None), log |-> <<>>]

\* class AsyncifyEventLoopPolicy(asyncio.DefaultEventLoopPolicy, _ChangingEventLoopPolicy)
InitialBases == <<"DefaultEventLoopPolicy", "_ChangingEventLoopPolicy">>

EventsInit ==
    /\ platform \in {"linux", "win32"}
    /\ bases = InitialBases
    /\ hooks = [n \in ValidNames |-> None]
    /\ latest = [n \in ValidNames |-> None]
    /\ ev = NoOp

EventsIdle ==
    /\ platform = "linux"
    /\ bases = InitialBases
    /\ hooks = [n \in ValidNames |-> None]
    /\ latest = [n \in ValidNames |-> None]
    /\ ev = NoOp

\* policy.event(func)
Event ==
    \E func \in EventFuncs :
        LET r == event(platform, bases, func)
        IN /\ ev' = [op |-> "event", arg |-> func, args |-> <<>>, res |-> r, log |-> <<>>]
           /\ hooks' = IF r.tag = "return" THEN setattr_hook(hooks, r.val) ELSE hooks
           /\ latest' = IF r.tag = "return"
                        THEN [latest EXCEPT ![func.name] =
                                 [func |-> func, bases |-> bases, replaced |-> latest[func.name] # None]]
                        ELSE latest
           /\ UNCHANGED <<platform, bases, funcVars, clsVars, hybridVars>>

\* policy.<name>(*args)
PolicyCall ==
    \E name \in ValidNames, args \in {<<>>, <<"loop">>} :
        LET r == policy_call(hooks, bases, name, args)
        IN /\ ev' = [op |-> "call", arg |-> name, args |-> args, res |-> r.res, log |-> r.log]
           /\ UNCHANGED <<platform, bases, hooks, latest, funcVars, clsVars, hybridVars>>

\* AsyncifyEventLoopPolicy.change_base_policy(policy_cls)
ChangeBasePolicy ==
    \E policy_cls \in PolicyClasses :
        LET r == change_base_policy(bases, policy_cls)
        IN /\ ev' = [op |-> "change_base_policy", arg |-> policy_cls, args |-> <<>>,
                     res |-> r, log |-> <<>>]
           /\ bases' = IF r.tag = "return" THEN r.val ELSE bases
           /\ UNCHANGED <<platform, hooks, latest, funcVars, clsVars, hybridVars>>

EventsNext ==
    \/ Event
    \/ PolicyCall
    \/ ChangeBasePolicy

(***************************************************************************)
(* The specifications, one per component.                                  *)
(***************************************************************************)

FuncIdle == FuncInit

InitFunc == FuncInit /\ ClsIdle /\ HybridIdle /\ EventsIdle
InitClass == FuncIdle /\ ClsInit /\ HybridIdle /\ EventsIdle
InitHybrid == FuncIdle /\ ClsIdle /\ HybridInit /\ EventsIdle
InitEvents == FuncIdle /\ ClsIdle /\ HybridIdle /\ EventsInit

SpecFunc == InitFunc /\ [][FuncNext]_vars

SpecClass == InitClass /\ [][ClsNext]_vars

SpecHybrid == InitHybrid /\ [][HybridNext]_vars

SpecEvents == InitEvents /\ [][EventsNext]_vars

(***************************************************************************)
(* The claims.                                                             *)
(***************************************************************************)

\* C1: for every callable f that is not a coroutine function, asyncify_func(f)
\* returns a wrapper instead of raising, and awaiting wrapper(a) under a
\* running loop gives the value f(a) returns or the exception f(a) raises.
C1_AsyncifyResolvesLikeFunc ==
    (wrapped.op = "asyncify" /\ callable(wrapped.func) /\ ~iscoroutinefunction(wrapped.func))
        => /\ wrapped.res.tag = "return"
           /\ called # NoCall => called.res = RunBody(wrapped.func, called.args)

\* C2: for every coroutine function g, with the thread's loop available and
\* not running, syncify_func(g)(a) returns what g(a) resolves to.
C2_SyncifyReturnsResolvedValue ==
    (/\ wrapped.op = "syncify"
     /\ iscoroutinefunction(wrapped.func)
     /\ called # NoCall
     /\ called.loop = "idle")
        => called.res = RunBody(wrapped.func, called.args)

\* C6: for every f that is not callable, asyncify_func(f) and syncify_func(f)
\* both raise TypeError at wrap time, returning no wrapper.
C6_NonCallableRejectedAtWrapTime ==
    (wrapped.op \in {"asyncify", "syncify"} /\ ~callable(wrapped.func))
        => wrapped.res = Raise("TypeError")

\* A dunder name starts and ends with two underscores.
IsDunder(name) ==
    /\ startswith(name, <<"_", "_">>)
    /\ Len(name) >= 4
    /\ SubSeq(name, Len(name) - 1, Len(name)) = <<"_", "_">>

\* Member i is a function, classmethod or staticmethod, is not a dunder and
\* carries no ignore mark.
Eligible(i, obj) ==
    /\ obj.kind \in {"function", "coroutinefunction", "classmethod", "staticmethod"}
    /\ ~IsDunder(MemberNames[i])
    /\ ~(IF obj.kind \in {"classmethod", "staticmethod"} THEN obj.func.ignore ELSE obj.ignore)

\* Calling the member returns an awaitable.
ReturnsAwaitable(obj) ==
    LET r == getattr_cls(obj)
    IN IF r.kind = "method" THEN iscoroutinefunction(r.func) ELSE iscoroutinefunction(r)

\* C3: asyncify_class(C) returns C; afterwards every eligible member (plain
\* function, classmethod or staticmethod, not a dunder, not marked ignore)
\* returns an awaitable when called, and every other member is the object it
\* was before.
C3_ClassMembersAsyncified ==
    clsRes.done
        => /\ clsRes.res = Return("cls")
           /\ \A i \in DOMAIN cls :
                IF Eligible(i, clsRes.before[i]) THEN ReturnsAwaitable(cls[i])
                ELSE cls[i] = clsRes.before[i]

\* The line has the shape `await <dotted-name>(...)` with the name inside the match.
AwaitShape(name, line) == _check_regex(name, strip(line))

\* The frames with an available source line that contains the name.
NamingFrames(name, frames) ==
    {i \in 1..Len(frames) : frames[i] # NoContext /\ Contains(frames[i], name)}

Made == hcall.self # None

\* C4 as stated: the call is classified by the source line of its immediate
\* caller (frames[2]) only: the async implementation when that line has the
\* await shape around the name, the sync implementation otherwise.
C4_ClassifiedByImmediateCaller ==
    (Made /\ hcall.frames[2] # NoContext)
        => /\ hcall.res.tag = "return"
           /\ hcall.res.val.impl =
                (IF AwaitShape(hcall.self.name, hcall.frames[2]) THEN "async" ELSE "sync")

\* C4 as amended: the call is classified by the first frame, from the
\* __call__ frame itself outward, whose source line is available and
\* contains the registered name: the async implementation is invoked when
\* that line has the await shape around the name, the sync implementation
\* otherwise, one of the two and no more; with no such frame the call raises
\* RuntimeError.
C4_ClassifiedByFirstNamingFrame ==
    Made =>
        LET naming == NamingFrames(hcall.self.name, hcall.frames)
        IN IF naming = {} THEN hcall.res.tag = "raise" /\ hcall.res.val = "RuntimeError"
           ELSE LET first == CHOOSE i \in naming : \A j \in naming : i <= j
                IN /\ hcall.res.tag = "return"
                   /\ hcall.res.val.impl =
                        (IF AwaitShape(hcall.self.name, hcall.frames[first])
                         THEN "async" ELSE "sync")

\* A call whose caller's line does not contain the name, classified as
\* async by the line of the frame above the caller.
C4_Witness ==
    /\ Made
    /\ Len(hcall.frames) = 3
    /\ hcall.frames[1] = CallLine
    /\ hcall.frames[2] = LineAlias
    /\ hcall.frames[3] = LineAwait
    /\ hcall.self.name = NameFoo
    /\ hcall.res = Return([impl |-> "async", args |-> hcall.args])

\* C9 as stated: when the caller's frame has no source line, the call
\* raises RuntimeError and invokes neither implementation, whatever the
\* frames further out contain.
C9_NoCallerContextRaises ==
    (Made /\ hcall.frames[2] = NoContext) => hcall.res = Raise("RuntimeError")

\* C9 as amended: the call raises RuntimeError, invoking neither
\* implementation, exactly when no frame of the stack, from the __call__
\* frame outward, has an available source line containing the registered
\* name; a caller's frame without source is skipped and the frames further
\* out decide.
C9_RaisesIffNoFrameNamesIt ==
    Made => (hcall.res = Raise("RuntimeError")
                <=> NamingFrames(hcall.self.name, hcall.frames) = {})

\* A call whose caller's frame has no source and whose outer frame does not
\* name the function: RuntimeError.
C9_Witness ==
    /\ Made
    /\ Len(hcall.frames) = 3
    /\ hcall.frames[2] = NoContext
    /\ hcall.frames[3] = LineAwaitAlias
    /\ hcall.res = Raise("RuntimeError")

\* C8: the descriptor stored in the class keeps its instance unset, and a
\* call through obj.member passes obj first, ahead of the caller's
\* arguments, to the implementation invoked, for every obj, falsy or not.
C8_InstancePassedFirst ==
    /\ descr.tag = "return" /\ descr.val # None => descr.val.instance = None
    /\ (Made /\ hcall.self.instance # None /\ hcall.res.tag = "return")
            => hcall.res.val.args = <<hcall.self.instance>> \o hcall.args

\* The first class of bs that derives from AbstractEventLoopPolicy.
PolicyBase(bs) ==
    bs[CHOOSE i \in DOMAIN bs :
            /\ issubclass(bs[i], "AbstractEventLoopPolicy")
            /\ \A j \in 1..(i - 1) : ~issubclass(bs[j], "AbstractEventLoopPolicy")]

\* C5: a call of the policy method N invokes the func most recently
\* registered for N, once, with the call's arguments, then the base policy's
\* implementation of N with the same arguments, and returns what that
\* implementation returns; no earlier func is invoked; a method with no
\* registered func behaves as the base policy's.
C5_LatestHookThenBase ==
    ev.op = "call" =>
        LET n == ev.arg
            reg == latest[n]
        IN IF reg # None
           THEN /\ Len(ev.log) = 2
                /\ ev.log[1] = [callee |-> "hook", id |-> reg.func.id, name |-> n,
                                args |-> ev.args]
                /\ ev.log[2] = [callee |-> "base", cls |-> PolicyBase(reg.bases), name |-> n,
                                args |-> ev.args]
                /\ ev.res = Return([from |-> "base", cls |-> PolicyBase(reg.bases),
                                    name |-> n, args |-> ev.args])
           ELSE IF \E i \in DOMAIN bases : issubclass(bases[i], "AbstractEventLoopPolicy")
                THEN /\ ev.log = <<[callee |-> "base", cls |-> PolicyBase(bases), name |-> n,
                                    args |-> ev.args]>>
                     /\ ev.res = Return([from |-> "base", cls |-> PolicyBase(bases),
                                         name |-> n, args |-> ev.args])
                ELSE ev.log = <<>> /\ ev.res.tag = "raise" /\ ev.res.val = "AttributeError"

\* A call of a method whose func replaced an earlier one, with an argument.
C5_Witness ==
    /\ ev.op = "call"
    /\ latest[ev.arg] # None
    /\ latest[ev.arg].replaced
    /\ latest[ev.arg].func.id = 2
    /\ ev.args = <<"loop">>
    /\ Len(ev.log) = 2

ChildWatcherNames == {"get_child_watcher", "set_child_watcher"}

\* event(func) may install func: callable, a valid name, supported here.
Installable(func) ==
    /\ func.callable
    /\ func.name \in ValidNames
    /\ ~(platform = "win32" /\ func.name \in ChildWatcherNames)

\* C7: event(func) installs a hook only for a callable func with one of the
\* five names that the platform supports; a func that is not callable
\* raises TypeError, an unrecognized or unsupported name raises RuntimeError,
\* and a failing call leaves the hook table as it was.
C7_EventStep ==
    ev'.op = "event" =>
        LET func == ev'.arg
        IN /\ ev'.res.tag = "return" => Installable(func) /\ hooks'[func.name].func = func
           /\ ~func.callable => ev'.res = Raise("TypeError")
           /\ (/\ func.callable
               /\ func.name # NoName
               /\ \/ func.name \notin ValidNames
                  \/ platform = "win32" /\ func.name \in ChildWatcherNames)
                => ev'.res = Raise("RuntimeError")
           /\ ev'.res.tag = "raise" => hooks' = hooks
           /\ \A n \in ValidNames : hooks'[n] # hooks[n] => Installable(func) /\ n = func.name

C7_EventValidates == [][C7_EventStep]_vars

\* On win32, with a hook installed, set_child_watcher was refused.
C7_Witness ==
    /\ ev.op = "event"
    /\ platform = "win32"
    /\ ev.arg.name = "set_child_watcher"
    /\ ev.res = Raise("RuntimeError")
    /\ hooks["get_event_loop"] # None

\* C10: change_base_policy(policy_cls) succeeds and makes policy_cls the
\* base for every class derived from AbstractEventLoopPolicy, and raises
\* TypeError, leaving the bases alone, for every other class.
C10_ChangeBasePolicyValidates ==
    ev.op = "change_base_policy" =>
        IF issubclass(ev.arg, "AbstractEventLoopPolicy")
        THEN ev.res.tag = "return" /\ bases = <<ev.arg>>
        ELSE ev.res = Raise("TypeError") /\ bases # <<ev.arg>>

====
